---- MODULE Spec2Model ----
(***************************************************************************)
(* Model of Scripts/Python/src/high_polygon_stl_generator.py.              *)
(*                                                                         *)
(* One run of the script is a sequential pass over a vertex buffer and a   *)
(* face buffer: create_directional_model (cone) or                         *)
(* create_complex_oriented_terrain (terrain) appends to both lists stage   *)
(* by stage and finally converts them to an STL mesh and saves it.         *)
(*                                                                         *)
(* Vertices carry floating point coordinates in the source.  No statement  *)
(* of the source branches on a coordinate, so a vertex is modelled by a    *)
(* tag <<stage, a, b>> that names the loop iteration that appended it.     *)
(* Face indices are the 0-based integers of the source; the vertex with    *)
(* index k is vertices[k + 1].                                             *)
(***************************************************************************)
EXTENDS Integers, Sequences, FiniteSets, TLC

VARIABLES kind, num_triangles, width, height, pc, error,
          vertices, faces, base_resolution, remaining_triangles,
          stl_file, saves, returned, earlier

vars == <<kind, num_triangles, width, height, pc, error,
          vertices, faces, base_resolution, remaining_triangles,
          stl_file, saves, returned, earlier>>

(***************************************************************************)
(* Bounds of the model.                                                    *)
(***************************************************************************)
MaxTriangles == 100
MaxDim == 4
MaxBudgetTarget == 120
BudgetWindow == 12

(***************************************************************************)
(* Program constants.                                                      *)
(***************************************************************************)
DefaultTriangles == 10000000
DefaultWidth == 3000
DefaultHeight == 3000
TerrainArrowResolution == 20
HeaderBytes == 80
CountBytes == 4
RecordBytes == 50

NoValue == -1
NoFile == [count |-> NoValue, records |-> <<>>]

\* Targets given to --triangles: every small target, two negative ones, and
\* two large ones (1000 is the end-to-end scenario; 4000 is the smallest
\* target whose arrow-pattern loops have a body to run).
NegativeTargets == {-1, -7}
LargeTargets == {1000, 4000}
Targets == (0..MaxTriangles) \cup NegativeTargets \cup LargeTargets

\* Grid sizes given to --width / --height.
NegativeDims == {-1}
LargeDims == {10}
Dims == (0..MaxDim) \cup NegativeDims \cup LargeDims

\* Targets of the count-only specification: small targets, a window around
\* 400000 (base_resolution 199 -> 200) and the default target.
FirstBigStep == 400000
BudgetTargets == (0..MaxBudgetTarget)
                 \cup ((FirstBigStep - BudgetWindow)..(FirstBigStep + BudgetWindow))
                 \cup {DefaultTriangles}

(***************************************************************************)
(* int(math.sqrt(x)) for x >= 0.                                           *)
(*                                                                         *)
(* math.sqrt is correctly rounded and int() truncates; for the targets of  *)
(* this model floor(sqrt(T / 10)) equals the integer square root of        *)
(* T \div 10, which is computed here by bisection.                         *)
(***************************************************************************)
RECURSIVE SqrtSearch(_, _, _)
SqrtSearch(n, lo, hi) ==
    IF lo >= hi THEN lo
    ELSE LET mid == (lo + hi + 1) \div 2
         IN  IF mid * mid <= n THEN SqrtSearch(n, mid, hi)
                               ELSE SqrtSearch(n, lo, mid - 1)

\* smallest power of two whose square exceeds n
RECURSIVE SqrtUpper(_, _)
SqrtUpper(n, h) == IF h * h > n THEN h ELSE SqrtUpper(n, 2 * h)

IntSqrt(n) == SqrtSearch(n, 0, SqrtUpper(n, 1))

\* line 18 with round() in place of int()
BaseResolutionRounded(T) ==
    LET r == IntSqrt(T \div 10)
    IN  IF 10 * (2 * r + 1) * (2 * r + 1) <= 4 * T THEN r + 1 ELSE r

\* line 18: base_resolution = int(math.sqrt(num_triangles / 10)), T >= 0
BaseResolution(T) == IntSqrt(T \div 10)

\* line 249: spiral_res_theta = int(math.sqrt(remaining_triangles / 10))
SpiralResTheta(remaining) == IntSqrt(remaining \div 10)

\* line 250: spiral_res_phi = spiral_res_theta * 10
SpiralResPhi(remaining) == SpiralResTheta(remaining) * 10

\* line 181: arrow_resolution = base_resolution // 10
ArrowResolution(r) == r \div 10

\* line 192: detail_res = base_resolution // 20
DetailRes(r) == r \div 20

(***************************************************************************)
(* Buffers.                                                                *)
(***************************************************************************)
Tag(stage, a, b) == <<stage, a, b>>

\* faces.append([face[0] + off, face[1] + off, face[2] + off])
OffsetFaces(template, off) ==
    [m \in 1..Len(template) |->
        <<template[m][1] + off, template[m][2] + off, template[m][3] + off>>]

\* A run of n quad cells, each appending 4 fresh vertices and 2 faces
\* (lines 231-239 and 285-293); base is len(vertices) before the first cell.
QuadCellVertices(stage, n) ==
    [m \in 1..(4 * n) |-> Tag(stage, (m - 1) \div 4, (m - 1) % 4)]

\* v_idx = len(vertices) read after the four appends instead of before
QuadCellFacesLate(base, n) ==
    [m \in 1..(2 * n) |->
        LET v_idx == base + 4 * ((m - 1) \div 2) + 4
        IN  IF (m - 1) % 2 = 0 THEN <<v_idx, v_idx + 1, v_idx + 2>>
                               ELSE <<v_idx + 1, v_idx + 3, v_idx + 2>>]

QuadCellFaces(base, n) ==
    [m \in 1..(2 * n) |->
        LET v_idx == base + 4 * ((m - 1) \div 2)
        IN  IF (m - 1) % 2 = 0 THEN <<v_idx, v_idx + 1, v_idx + 2>>
                               ELSE <<v_idx + 1, v_idx + 3, v_idx + 2>>]

(***************************************************************************)
(* Cone generator, lines 37-75: cone body.                                 *)
(***************************************************************************)
ConeVertices(resolution) ==
    <<Tag("cone_apex", 0, 0)>>
    \o [m \in 1..resolution |-> Tag("cone_rim", m - 1, 0)]
    \o <<Tag("cone_base_center", 0, 0)>>

ConeSideFaces(resolution, vertex_offset) ==
    [m \in 1..resolution |->
        LET i == m - 1
        IN  <<0 + vertex_offset,
              1 + i + vertex_offset,
              1 + ((i + 1) % resolution) + vertex_offset>>]

ConeCapFaces(resolution, vertex_offset, center_idx) ==
    [m \in 1..resolution |->
        LET i == m - 1
        IN  <<center_idx,
              1 + ((i + 1) % resolution) + vertex_offset,
              1 + i + vertex_offset>>]

(***************************************************************************)
(* Lines 84-166: the three axis pyramids share one face template.          *)
(***************************************************************************)
PyramidFaces ==
    << <<0, 1, 4>>, <<1, 2, 4>>, <<2, 3, 4>>, <<3, 0, 4>>,
       <<0, 3, 1>>, <<1, 3, 2>> >>

PyramidVertices(axis) == [m \in 1..5 |-> Tag(axis, m - 1, 0)]

(***************************************************************************)
(* Face counts of the cone stages, as the loops of the source produce      *)
(* them.  StageCountsAgree below ties them to the materialised buffers.    *)
(***************************************************************************)
ConeBodyFaceCount(r) == r + r
AxisMarkerFaceCount == 3 * Len(PyramidFaces)
ArrowPatchCells(r) == ArrowResolution(r) * DetailRes(r) * DetailRes(r)
ArrowPatchFaceCount(r) == 2 * ArrowPatchCells(r)
FixedStageFaces(r) ==
    ConeBodyFaceCount(r) + AxisMarkerFaceCount + ArrowPatchFaceCount(r)
SpiralCells(remaining) ==
    IF remaining > 0 THEN SpiralResPhi(remaining) * SpiralResTheta(remaining)
                     ELSE 0
SpiralFaceCount(remaining) == 2 * SpiralCells(remaining)

\* the value create_directional_model returns for target T >= 0
ActualTriangles(T) ==
    LET r == BaseResolution(T)
    IN  FixedStageFaces(r) + SpiralFaceCount(T - FixedStageFaces(r))

(***************************************************************************)
(* Terrain generator.                                                      *)
(*                                                                         *)
(* NumPy shapes are pairs <<rows, columns>>.  x_grid and y_grid come from  *)
(* np.meshgrid(x, y) and have shape <<height, width>>; z_grid is           *)
(* np.zeros((width, height)).                                              *)
(***************************************************************************)
MeshgridShape(w, h) == <<h, w>>
ZGridShape(w, h) == <<w, h>>

\* NumPy broadcasting of one axis; NoValue when the lengths do not combine
BroadcastDim(a, b) ==
    IF a = b THEN a
    ELSE IF a = 1 THEN b
    ELSE IF b = 1 THEN a
    ELSE NoValue

\* out += operand succeeds iff the broadcast shape is the shape of out
InPlaceAddOk(out, operand) ==
    /\ BroadcastDim(out[1], operand[1]) = out[1]
    /\ BroadcastDim(out[2], operand[2]) = out[2]

\* z_grid[i, j] with NumPy's wrap-around of negative indices
IndexOk(shape, i, j) ==
    /\ -shape[1] <= i /\ i < shape[1]
    /\ -shape[2] <= j /\ j < shape[2]

\* lines 357-359
TerrainVertices(w, h) ==
    [m \in 1..(h * w) |-> Tag("grid", (m - 1) \div w, (m - 1) % w)]

\* range(n) has no element when n <= 0
RangeLen(n) == IF n > 0 THEN n ELSE 0

TerrainCells(w, h) == RangeLen(h - 1) * RangeLen(w - 1)

\* lines 362-371
TerrainFaces(w, h) ==
    [m \in 1..(2 * TerrainCells(w, h)) |->
        LET c == (m - 1) \div 2
            i == c \div (w - 1)
            j == c % (w - 1)
            p1 == i * w + j
            p2 == p1 + 1
            p3 == (i + 1) * w + j
            p4 == p3 + 1
        IN  IF (m - 1) % 2 = 0 THEN <<p1, p2, p3>> ELSE <<p2, p4, p3>>]

\* lines 411-421
MarkerFaces ==
    << <<0, 2, 1>>, <<0, 3, 2>>,
       <<0, 1, 5>>, <<0, 5, 4>>,
       <<1, 2, 6>>, <<1, 6, 5>>,
       <<2, 3, 7>>, <<2, 7, 6>>,
       <<3, 0, 4>>, <<3, 4, 7>>,
       <<4, 5, 6>>, <<4, 6, 7>> >>

MarkerLabels == <<"SW", "SE", "NW", "NE">>

MarkerVertices(label) == [m \in 1..8 |-> Tag(label, m - 1, 0)]

\* lines 389-424: the loop over the four corner markers
RECURSIVE AddMarkers(_, _, _)
AddMarkers(idx, vs, fs) ==
    IF idx > Len(MarkerLabels) THEN <<vs, fs>>
    ELSE LET v_idx == Len(vs)
         IN  AddMarkers(idx + 1,
                        vs \o MarkerVertices(MarkerLabels[idx]),
                        fs \o OffsetFaces(MarkerFaces, v_idx))

\* lines 438-452
ArrowVertices(n) ==
    <<Tag("arrow_center", 0, 0)>>
    \o [m \in 1..n |-> Tag("arrow_base", m - 1, 0)]
    \o <<Tag("arrow_tip", 0, 0)>>

\* base_vertices_idx[i], i in 0..n-1
BaseVertexIdx(center_vertex_idx, i) == center_vertex_idx + 1 + i

\* lines 455-460
ArrowBaseFaces(center_vertex_idx, n) ==
    [m \in 1..n |->
        LET i == m - 1
        IN  <<center_vertex_idx,
              BaseVertexIdx(center_vertex_idx, i),
              BaseVertexIdx(center_vertex_idx, (i + 1) % n)>>]

\* lines 463-468
ArrowSideFaces(center_vertex_idx, tip_vertex_idx, n) ==
    [m \in 1..n |->
        LET i == m - 1
        IN  <<tip_vertex_idx,
              BaseVertexIdx(center_vertex_idx, i),
              BaseVertexIdx(center_vertex_idx, (i + 1) % n)>>]

\* lines 490-507
AxisLineVertices(axis) == [m \in 1..4 |-> Tag(axis, m - 1, 0)]

AxisLineFaces(start_idx) ==
    << <<start_idx, start_idx + 1, start_idx + 2>>,
       <<start_idx + 1, start_idx + 3, start_idx + 2>> >>

(***************************************************************************)
(* Serialisation, lines 298-310 and 512-524.                               *)
(*                                                                         *)
(* mesh.Mesh(np.zeros(len(faces))) allocates one record per face, the loop *)
(* copies vertices[face[j]] into record i, and save() writes the 80 byte   *)
(* header, the 4 byte record count and the records.                        *)
(***************************************************************************)
VertexAt(vs, index) ==
    IF index >= 0 THEN vs[index + 1] ELSE vs[Len(vs) + index + 1]

FacesResolvable(vs, fs) ==
    \A m \in 1..Len(fs) : \A j \in 1..3 :
        -Len(vs) <= fs[m][j] /\ fs[m][j] < Len(vs)

\* a serialiser that loops over range(len(faces) - 1)
StlFileShort(vs, fs) ==
    [count   |-> Len(fs),
     records |-> [m \in 1..(Len(fs) - 1) |->
                    [j \in 1..3 |-> VertexAt(vs, fs[m][j])]]]

StlFile(vs, fs) ==
    [count   |-> Len(fs),
     records |-> [m \in 1..Len(fs) |->
                    [j \in 1..3 |-> VertexAt(vs, fs[m][j])]]]

FileSize(f) == HeaderBytes + CountBytes + RecordBytes * Len(f.records)

(***************************************************************************)
(* State after argument parsing, lines 551-562.  The parameters of the     *)
(* generator that is not selected keep their argparse defaults.            *)
(***************************************************************************)
NoRun == [num_triangles |-> NoValue, actual_triangles |-> NoValue]

EmptyRun ==
    /\ pc = "main"
    /\ error = "none"
    /\ vertices = <<>>
    /\ faces = <<>>
    /\ base_resolution = NoValue
    /\ remaining_triangles = NoValue
    /\ stl_file = NoFile
    /\ saves = 0
    /\ returned = NoValue
    /\ earlier = NoRun

Init ==
    /\ kind \in {"cone", "terrain"}
    /\ \/ /\ kind = "cone"
          /\ num_triangles \in Targets
          /\ width = DefaultWidth
          /\ height = DefaultHeight
       \/ /\ kind = "terrain"
          /\ num_triangles = DefaultTriangles
          /\ width \in Dims
          /\ height \in Dims
    /\ EmptyRun

Raise(exception) ==
    /\ pc' = "error"
    /\ error' = exception

\* lines 564-567: dispatch on --type
Main ==
    /\ pc = "main"
    /\ pc' = IF kind = "cone" THEN "cone_start" ELSE "terrain_grid"
    /\ UNCHANGED <<kind, num_triangles, width, height, error, vertices, faces,
                   base_resolution, remaining_triangles, stl_file, saves,
                   returned, earlier>>

(***************************************************************************)
(* create_directional_model                                                *)
(***************************************************************************)
\* lines 18-26: math.sqrt raises ValueError for a negative argument
ConeStart ==
    /\ pc = "cone_start"
    /\ IF num_triangles < 0
         THEN /\ Raise("ValueError")
              /\ UNCHANGED base_resolution
         ELSE /\ base_resolution' = BaseResolution(num_triangles)
              /\ pc' = "cone_body"
              /\ UNCHANGED error
    /\ UNCHANGED <<kind, num_triangles, width, height, vertices, faces,
                   remaining_triangles, stl_file, saves, returned, earlier>>

\* lines 28-75
ConeBody ==
    /\ pc = "cone_body"
    /\ LET resolution == base_resolution
           vertex_offset == 0
           vs == vertices \o ConeVertices(resolution)
           center_idx == Len(vs) - 1
       IN  /\ vertices' = vs
           /\ faces' = faces \o ConeSideFaces(resolution, vertex_offset)
                             \o ConeCapFaces(resolution, vertex_offset, center_idx)
    /\ pc' = "axis_markers"
    /\ UNCHANGED <<kind, num_triangles, width, height, error, base_resolution,
                   remaining_triangles, stl_file, saves, returned, earlier>>

\* lines 77-169
AxisMarkers ==
    /\ pc = "axis_markers"
    /\ LET x_offset == Len(vertices)
           y_offset == x_offset + Len(PyramidVertices("x_axis"))
           z_offset == y_offset + Len(PyramidVertices("y_axis"))
       IN  /\ vertices' = vertices \o PyramidVertices("x_axis")
                                   \o PyramidVertices("y_axis")
                                   \o PyramidVertices("z_axis")
           /\ faces' = faces \o OffsetFaces(PyramidFaces, x_offset)
                             \o OffsetFaces(PyramidFaces, y_offset)
                             \o OffsetFaces(PyramidFaces, z_offset)
    /\ pc' = "arrow_patches"
    /\ UNCHANGED <<kind, num_triangles, width, height, error, base_resolution,
                   remaining_triangles, stl_file, saves, returned, earlier>>

\* lines 171-239
ArrowPatches ==
    /\ pc = "arrow_patches"
    /\ LET cells == ArrowPatchCells(base_resolution)
       IN  /\ vertices' = vertices \o QuadCellVertices("arrow_patch", cells)
           /\ faces' = faces \o QuadCellFaces(Len(vertices), cells)
    /\ pc' = "texture"
    /\ UNCHANGED <<kind, num_triangles, width, height, error, base_resolution,
                   remaining_triangles, stl_file, saves, returned, earlier>>

\* lines 241-293
TextureFill ==
    /\ pc = "texture"
    /\ LET remaining == num_triangles - Len(faces)
           cells == SpiralCells(remaining)
       IN  /\ remaining_triangles' = remaining
           /\ vertices' = vertices \o QuadCellVertices("spiral", cells)
           /\ faces' = faces \o QuadCellFaces(Len(vertices), cells)
    /\ pc' = "save"
    /\ UNCHANGED <<kind, num_triangles, width, height, error, base_resolution,
                   stl_file, saves, returned, earlier>>

(***************************************************************************)
(* create_complex_oriented_terrain                                         *)
(***************************************************************************)
\* lines 344-374: np.linspace raises ValueError for a negative sample count,
\* z_grid += ... raises ValueError when the shapes do not broadcast
TerrainGrid ==
    /\ pc = "terrain_grid"
    /\ IF width < 0 \/ height < 0
         THEN /\ Raise("ValueError")
              /\ UNCHANGED <<vertices, faces>>
         ELSE IF ~InPlaceAddOk(ZGridShape(width, height),
                               MeshgridShape(width, height))
         THEN /\ Raise("ValueError")
              /\ UNCHANGED <<vertices, faces>>
         ELSE /\ vertices' = vertices \o TerrainVertices(width, height)
              /\ faces' = faces \o TerrainFaces(width, height)
              /\ pc' = "corner_markers"
              /\ UNCHANGED error
    /\ UNCHANGED <<kind, num_triangles, width, height, base_resolution,
                   remaining_triangles, stl_file, saves, returned, earlier>>

\* lines 376-424: z_grid[0, 0], z_grid[0, -1], z_grid[-1, 0], z_grid[-1, -1]
CornerMarkers ==
    /\ pc = "corner_markers"
    /\ IF ~(/\ IndexOk(ZGridShape(width, height), 0, 0)
            /\ IndexOk(ZGridShape(width, height), 0, -1)
            /\ IndexOk(ZGridShape(width, height), -1, 0)
            /\ IndexOk(ZGridShape(width, height), -1, -1))
         THEN /\ Raise("IndexError")
              /\ UNCHANGED <<vertices, faces>>
         ELSE /\ vertices' = AddMarkers(1, vertices, faces)[1]
              /\ faces' = AddMarkers(1, vertices, faces)[2]
              /\ pc' = "central_arrow"
              /\ UNCHANGED error
    /\ UNCHANGED <<kind, num_triangles, width, height, base_resolution,
                   remaining_triangles, stl_file, saves, returned, earlier>>

\* lines 426-468: z_grid[height // 2, width // 2]
CentralArrow ==
    /\ pc = "central_arrow"
    /\ IF ~IndexOk(ZGridShape(width, height), height \div 2, width \div 2)
         THEN /\ Raise("IndexError")
              /\ UNCHANGED <<vertices, faces>>
         ELSE LET arrow_resolution == TerrainArrowResolution
                  center_vertex_idx == Len(vertices)
                  vs == vertices \o ArrowVertices(arrow_resolution)
                  tip_vertex_idx == Len(vs) - 1
              IN  /\ vertices' = vs
                  /\ faces' = faces
                        \o ArrowBaseFaces(center_vertex_idx, arrow_resolution)
                        \o ArrowSideFaces(center_vertex_idx, tip_vertex_idx,
                                          arrow_resolution)
                  /\ pc' = "axis_lines"
                  /\ UNCHANGED error
    /\ UNCHANGED <<kind, num_triangles, width, height, base_resolution,
                   remaining_triangles, stl_file, saves, returned, earlier>>

\* lines 470-507: z_grid[height // 2, 0], z_grid[height // 2, -1],
\* z_grid[0, width // 2], z_grid[-1, width // 2]
AxisLines ==
    /\ pc = "axis_lines"
    /\ IF ~(/\ IndexOk(ZGridShape(width, height), height \div 2, 0)
            /\ IndexOk(ZGridShape(width, height), height \div 2, -1)
            /\ IndexOk(ZGridShape(width, height), 0, width \div 2)
            /\ IndexOk(ZGridShape(width, height), -1, width \div 2))
         THEN /\ Raise("IndexError")
              /\ UNCHANGED <<vertices, faces>>
         ELSE LET x_start_idx == Len(vertices)
                  y_start_idx == x_start_idx + Len(AxisLineVertices("x_line"))
              IN  /\ vertices' = vertices \o AxisLineVertices("x_line")
                                          \o AxisLineVertices("y_line")
                  /\ faces' = faces \o AxisLineFaces(x_start_idx)
                                    \o AxisLineFaces(y_start_idx)
                  /\ pc' = "save"
                  /\ UNCHANGED error
    /\ UNCHANGED <<kind, num_triangles, width, height, base_resolution,
                   remaining_triangles, stl_file, saves, returned, earlier>>

(***************************************************************************)
(* Lines 295-317 and 509-531: convert, fill the mesh, save, return.        *)
(***************************************************************************)
Save ==
    /\ pc = "save"
    /\ IF ~FacesResolvable(vertices, faces)
         THEN /\ Raise("IndexError")
              /\ UNCHANGED <<stl_file, saves, returned>>
         ELSE /\ stl_file' = StlFile(vertices, faces)
              /\ saves' = saves + 1
              /\ returned' = Len(faces)
              /\ pc' = "done"
              /\ UNCHANGED error
    /\ UNCHANGED <<kind, num_triangles, width, height, vertices, faces,
                   base_resolution, remaining_triangles, earlier>>

Next ==
    \/ Main
    \/ ConeStart
    \/ ConeBody
    \/ AxisMarkers
    \/ ArrowPatches
    \/ TextureFill
    \/ TerrainGrid
    \/ CornerMarkers
    \/ CentralArrow
    \/ AxisLines
    \/ Save

Spec == Init /\ [][Next]_vars

(***************************************************************************)
(* Count-only specification of create_directional_model.                   *)
(*                                                                         *)
(* The buffers are not materialised: one step computes the resolution, the *)
(* texture budget and the number of faces the stages append.  A second run *)
(* with a target at least as large follows the first one, so that two      *)
(* results can be compared.                                                *)
(***************************************************************************)
BudgetInit ==
    /\ kind = "cone"
    /\ num_triangles \in BudgetTargets
    /\ width = DefaultWidth
    /\ height = DefaultHeight
    /\ pc = "budget"
    /\ error = "none"
    /\ vertices = <<>>
    /\ faces = <<>>
    /\ base_resolution = NoValue
    /\ remaining_triangles = NoValue
    /\ stl_file = NoFile
    /\ saves = 0
    /\ returned = NoValue
    /\ earlier = NoRun

\* lines 18, 58-72, 96-166, 181-239, 243-293, 312-317 by their face counts
CountFaces ==
    /\ pc = "budget"
    /\ base_resolution' = BaseResolution(num_triangles)
    /\ remaining_triangles' =
           num_triangles - FixedStageFaces(BaseResolution(num_triangles))
    /\ returned' = ActualTriangles(num_triangles)
    /\ pc' = "counted"
    /\ UNCHANGED <<kind, num_triangles, width, height, error, vertices, faces,
                   stl_file, saves, earlier>>

\* a later invocation of the script with a target that is not smaller
NextTarget ==
    /\ pc = "counted"
    /\ earlier = NoRun
    /\ earlier' = [num_triangles |-> num_triangles,
                   actual_triangles |-> returned]
    /\ \E t \in BudgetTargets :
          /\ t >= num_triangles
          /\ num_triangles' = t
    /\ base_resolution' = NoValue
    /\ remaining_triangles' = NoValue
    /\ returned' = NoValue
    /\ pc' = "budget"
    /\ UNCHANGED <<kind, width, height, error, vertices, faces, stl_file,
                   saves>>

BudgetNext ==
    \/ CountFaces
    \/ NextTarget

SpecBudget == BudgetInit /\ [][BudgetNext]_vars

(***************************************************************************)
(* The face counts used by SpecBudget are the lengths of the buffers that  *)
(* the stages of Spec build.                                               *)
(***************************************************************************)
StageCountsAgree ==
    kind = "cone" =>
        /\ pc = "axis_markers" =>
              Len(faces) = ConeBodyFaceCount(base_resolution)
        /\ pc = "arrow_patches" =>
              Len(faces) = ConeBodyFaceCount(base_resolution)
                           + AxisMarkerFaceCount
        /\ pc = "texture" => Len(faces) = FixedStageFaces(base_resolution)
        /\ pc \in {"save", "done"} =>
              /\ remaining_triangles
                    = num_triangles - FixedStageFaces(base_resolution)
              /\ Len(faces) = ActualTriangles(num_triangles)

(***************************************************************************)
(* Properties.                                                             *)
(***************************************************************************)
FaceIndices(f) == {f[1], f[2], f[3]}

\* C1: at serialisation time every index of every face of a generated mesh
\* is a valid index into the vertex buffer, 0 <= index < len(vertices).
IndexValidity ==
    pc \in {"save", "done"} =>
        \A m \in 1..Len(faces) : \A idx \in FaceIndices(faces[m]) :
            0 <= idx /\ idx < Len(vertices)

\* a cone with texture cells is about to be serialised and a face uses the
\* last vertex of the buffer
IndexValidityWitness ==
    /\ pc = "save"
    /\ kind = "cone"
    /\ remaining_triangles >= 10
    /\ \E m \in 1..Len(faces) : faces[m][2] = Len(vertices) - 1

\* C2: no face of the face buffer repeats a vertex index.
NoRepeatedIndex ==
    \A m \in 1..Len(faces) :
        /\ faces[m][1] # faces[m][2]
        /\ faces[m][2] # faces[m][3]
        /\ faces[m][1] # faces[m][3]

PositiveRequest ==
    \/ kind = "cone" /\ num_triangles >= 1
    \/ kind = "terrain" /\ width >= 1 /\ height >= 1

\* C3: a strictly positive request never ends in an error.
PositiveRequestCompletes == PositiveRequest => pc # "error"

\* C4: for targets 1 <= T1 <= T2 the count returned for T2 is at least the
\* count returned for T1.
CountMonotone ==
    (/\ pc = "counted"
     /\ earlier # NoRun
     /\ earlier.num_triangles >= 1
     /\ earlier.num_triangles <= num_triangles)
    => earlier.actual_triangles <= returned

InvalidConfiguration ==
    \/ kind = "cone" /\ num_triangles <= 0
    \/ kind = "terrain" /\ (width <= 0 \/ height <= 0)

\* C5: an invalid configuration never gets a vertex or a face appended, never
\* gets a file written, and its run does not end normally.
InvalidConfigRejected ==
    InvalidConfiguration =>
        /\ vertices = <<>>
        /\ faces = <<>>
        /\ stl_file = NoFile
        /\ pc # "done"

MarkerStageFaces ==
    Len(MarkerLabels) * Len(MarkerFaces) + 2 * TerrainArrowResolution + 2 * 2

\* C6: for a width x height grid (both >= 1) the face buffer holds exactly
\* 2*(width-1)*(height-1) faces once the grid stage is over, and
\* 2*(width-1)*(height-1) + 92 faces are serialised and returned.
TerrainFaceTotal ==
    (kind = "terrain" /\ width >= 1 /\ height >= 1) =>
        /\ pc \in {"corner_markers", "error"} =>
              Len(faces) = 2 * (width - 1) * (height - 1)
        /\ pc \in {"save", "done"} =>
              Len(faces) = 2 * (width - 1) * (height - 1) + 92
        /\ pc = "done" => returned = 2 * (width - 1) * (height - 1) + 92

\* C7: the file is written once, after the last generator stage, with one
\* record per face in buffer order; the header count, the number of records
\* and the returned value all equal the length of the face buffer, and the
\* file has 80 + 4 + 50 * N bytes.
SerializedOnceInOrder ==
    /\ pc # "done" => stl_file = NoFile /\ saves = 0 /\ returned = NoValue
    /\ pc = "done" =>
          /\ saves = 1
          /\ stl_file.count = Len(faces)
          /\ Len(stl_file.records) = Len(faces)
          /\ returned = Len(faces)
          /\ FileSize(stl_file) = 80 + 4 + 50 * returned
          /\ \A m \in 1..Len(faces) : \A j \in 1..3 :
                stl_file.records[m][j] = vertices[faces[m][j] + 1]

\* the cone run with triangles=1000 has written its 1658 records
SerializedWitness ==
    /\ pc = "done"
    /\ kind = "cone"
    /\ num_triangles = 1000
    /\ stl_file.count = 1658
    /\ FileSize(stl_file) = 82984

SpiralWithinBudget ==
    (kind = "cone" /\ pc \in {"save", "done"}) =>
        LET before == num_triangles - remaining_triangles
            appended == Len(faces) - before
        IN  /\ remaining_triangles <= 0 => appended = 0
            /\ remaining_triangles > 0 => appended <= remaining_triangles

(***************************************************************************)
(* Winding of a sub-mesh: the faces at positions first .. first+count-1.   *)
(***************************************************************************)
SubMesh(first, count) == SubSeq(faces, first, first + count - 1)

DirectedEdges(f) == {<<f[1], f[2]>>, <<f[2], f[3]>>, <<f[3], f[1]>>}

Reverse(e) == <<e[2], e[1]>>

ConsistentlyOriented(sub) ==
    \A m \in 1..Len(sub) : \A e \in DirectedEdges(sub[m]) :
        /\ \A n \in 1..Len(sub) : n # m => e \notin DirectedEdges(sub[n])
        /\ Cardinality({n \in 1..Len(sub) :
                           n # m /\ Reverse(e) \in DirectedEdges(sub[n])}) = 1

\* C10: the cone body (resolution >= 3), the three axis pyramids, the four
\* corner pylons and the central arrow of the terrain each use no directed
\* edge twice and pair every directed edge with exactly one reversed edge of
\* another face of the same sub-mesh.
OrientedSubMeshes ==
    /\ (kind = "cone" /\ pc \in {"save", "done"}) =>
          /\ base_resolution >= 3 =>
                ConsistentlyOriented(SubMesh(1, 2 * base_resolution))
          /\ \A a \in 0..2 :
                ConsistentlyOriented(
                    SubMesh(2 * base_resolution + Len(PyramidFaces) * a + 1,
                            Len(PyramidFaces)))
    /\ (kind = "terrain" /\ pc \in {"save", "done"}) =>
          LET body == Len(TerrainFaces(width, height))
              pylons == Len(MarkerLabels) * Len(MarkerFaces)
          IN  /\ \A a \in 0..(Len(MarkerLabels) - 1) :
                    ConsistentlyOriented(
                        SubMesh(body + Len(MarkerFaces) * a + 1,
                                Len(MarkerFaces)))
              /\ ConsistentlyOriented(
                    SubMesh(body + pylons + 1, 2 * TerrainArrowResolution))

====
